---- MODULE Spec2Model ----
(***************************************************************************)
(* A model of iss_tracker.py: the nearest-timestamp search                 *)
(* (dich_index_finder), the Redis-backed loader (load_data) and the Flask  *)
(* route handlers that answer from the cached dataset.                     *)
(*                                                                         *)
(* Instants are integers (ticks of the microsecond clock, abstracted to a  *)
(* small range).  A timestamp text is a sequence of characters of three    *)
(* classes: a numeric body "YYYY-DDDTHH:MM:SS.ffffff" carrying the instant *)
(* it denotes, the letter "Z", and any other character.                    *)
(***************************************************************************)
EXTENDS Integers, Sequences, FiniteSets, TLC

\* Instants range over 0..MaxTime.
MaxTime == 6
\* The longest list of epochs handed to the search.
MaxLen == 5

\* The callers of load_data are 1..NumCallers.
NumCallers == 2
\* The calls of load_data one caller makes in sequence.
MaxCalls == 3
\* The datasets the origin can serve hold 1..NumOriginDocs epochs.
NumOriginDocs == 3
\* A stored dataset holds 1..DataLen epochs, with instants in 0..DataTime.
DataLen == 3
DataTime == 3
\* The offset and limit arguments range over -NegArgs..DataLen+1.
NegArgs == 2

VARIABLES
    \* dich_index_finder: its arguments, its locals, its position, its result
    state_vectors, searched_time, left_index, right_index, current_index,
    pc, retval,
    \* the value Redis holds under the key "data_set"
    rd,
    \* the attributes the code hangs on the Flask app
    app_data_set, app_epochs,
    \* the last request served and the response it got
    req, resp,
    \* load_data, per caller: position, local `response`, how the last call
    \* ended, calls completed, calls the caller will make
    lpc, response, outcome, calls, call_limit,
    \* history: requests.get calls, rd.set calls, calls of load_data that
    \* raised, and the value Redis held at the start
    fetches, writes, nraised, rd_init

search_vars == <<state_vectors, searched_time, left_index, right_index,
                 current_index, pc, retval>>

store_vars == <<rd, app_data_set, app_epochs>>

query_vars == <<req, resp>>

loader_vars == <<lpc, response, outcome, calls, call_limit>>

history_vars == <<fetches, writes, nraised, rd_init>>

vars == <<search_vars, store_vars, query_vars, loader_vars, history_vars>>

----------------------------------------------------------------------------
(* Timestamp texts and their parsing                                       *)

Num(v) == [c |-> "num", v |-> v]
ZChar == [c |-> "Z", v |-> 0]
XChar == [c |-> "x", v |-> 0]

\* The text of instant v as the dataset writes it: '%Y-%jT%H:%M:%S.%fZ'.
EpochText(v) == <<Num(v), ZChar>>

\* str.replace("Z", ""): every "Z" is removed, wherever it stands.
replace_Z(s) == SelectSeq(s, LAMBDA ch : ch.c # "Z")

\* datetime.strptime(s, "%Y-%jT%H:%M:%S.%f"): the whole text must be one
\* numeric body; anything else raises ValueError.
strptime(s) ==
    IF Len(s) = 1 /\ s[1].c = "num"
    THEN [exc |-> "none", dt |-> s[1].v]
    ELSE [exc |-> "ValueError", dt |-> 0]

----------------------------------------------------------------------------
(* Python lists                                                            *)

\* list[i]: indices -len..len-1 are valid, negative ones count from the end.
PyIndexOK(l, i) == -Len(l) <= i /\ i < Len(l)
PyGet(l, i) == IF i >= 0 THEN l[i + 1] ELSE l[Len(l) + i + 1]

\* abs() of a difference of instants (np.abs(timedelta.total_seconds())).
Abs(x) == IF x >= 0 THEN x ELSE -x

----------------------------------------------------------------------------
(* get_datetime_from_index and dich_index_finder                           *)

\* A variant that answers a default instant for an index outside the list.
get_datetime_from_index_default(sv, index) ==
    IF ~PyIndexOK(sv, index)
    THEN [exc |-> "none", dt |-> 0]
    ELSE strptime(replace_Z(PyGet(sv, index).EPOCH))

get_datetime_from_index(sv, index) ==
    IF ~PyIndexOK(sv, index)
    THEN [exc |-> "IndexError", dt |-> 0]
    ELSE strptime(replace_Z(PyGet(sv, index).EPOCH))

\* A variant that divides the window by four.
HalfFloor_quarter(d) == d \div 4

\* math.floor((right_index - left_index) / 2)
HalfFloor(d) == d \div 2

Mid(l, r) == l + HalfFloor(r - l)

\* One pass through the body of the while loop (lines 242-254): either the
\* function returns current_index, or the window is narrowed, or the
\* timestamp lookup raises.
LoopBody(sv, t, l, r) ==
    LET cur == Mid(l, r)
        val == get_datetime_from_index(sv, cur)
    IN  IF val.exc # "none"
        THEN [kind |-> "raise", exc |-> val.exc, cur |-> cur, left |-> l, right |-> r]
        ELSE IF val.dt = t
        THEN [kind |-> "return", exc |-> "none", cur |-> cur, left |-> l, right |-> r]
        ELSE [kind |-> "continue", exc |-> "none", cur |-> cur,
              left |-> (IF val.dt < t THEN cur ELSE l),
              right |-> (IF val.dt > t THEN cur ELSE r)]

\* A variant that also prefers the left candidate on equal distances.
LeftIsCloser_orEqual(distance_left, distance_right) == distance_left <= distance_right

\* A variant with the comparison reversed.
LeftIsCloser_reversed(distance_left, distance_right) == distance_left > distance_right

\* distance_left < distance_right (line 266)
LeftIsCloser(distance_left, distance_right) == distance_left < distance_right

\* Lines 257-269: the two candidates of the final window.
AfterLoop(sv, t, l, r) ==
    LET dl == get_datetime_from_index(sv, l)
        dr == get_datetime_from_index(sv, r)
    IN  IF dl.exc # "none" THEN [kind |-> "raise", exc |-> dl.exc, index |-> 0]
        ELSE IF dr.exc # "none" THEN [kind |-> "raise", exc |-> dr.exc, index |-> 0]
        ELSE IF LeftIsCloser(Abs(dl.dt - t), Abs(dr.dt - t))
        THEN [kind |-> "return", exc |-> "none", index |-> l]
        ELSE [kind |-> "return", exc |-> "none", index |-> r]

RECURSIVE SearchFrom(_, _, _, _)
SearchFrom(sv, t, l, r) ==
    IF r - l >= 2
    THEN LET b == LoopBody(sv, t, l, r)
         IN  CASE b.kind = "raise" -> [kind |-> "raise", exc |-> b.exc, index |-> 0]
               [] b.kind = "return" -> [kind |-> "return", exc |-> "none", index |-> b.cur]
               [] OTHER -> SearchFrom(sv, t, b.left, b.right)
    ELSE AfterLoop(sv, t, l, r)

\* The function as a whole, as its callers see it.
dich_index_finder(sv, t) == SearchFrom(sv, t, 0, Len(sv) - 1)

----------------------------------------------------------------------------
(* Epochs, datasets and what Redis and the origin hold                     *)

Times == 0..MaxTime

\* One stateVector of the dataset: its timestamp text and its velocity
\* components (the "#text" of X_DOT, Y_DOT, Z_DOT, as numbers).
Epoch(v) == [EPOCH |-> EpochText(v), X_DOT |-> -v, Y_DOT |-> 4, Z_DOT |-> 5]

NoEpoch == [EPOCH |-> << >>, X_DOT |-> 0, Y_DOT |-> 0, Z_DOT |-> 0]

\* Lists of at most n epochs with instants in lo..hi, strictly ascending.
RECURSIVE AscendingFrom(_, _, _)
AscendingFrom(lo, hi, n) ==
    IF n = 0 THEN {<< >>}
    ELSE {<< >>} \cup
         UNION {{<<Epoch(v)>> \o rest : rest \in AscendingFrom(v + 1, hi, n - 1)} :
                v \in lo..hi}

\* The lists handed to the search.
SortedLists == AscendingFrom(0, MaxTime, MaxLen)

\* The lists a stored dataset can hold.
DataLists == {l \in AscendingFrom(0, DataTime, DataLen) : Len(l) >= 1}

\* A value that is no document: Python's None, an unset attribute, a body
\* that is no XML; and documents: the parsed dataset (a dict with the path
\* ndm/oem/body/segment), or a well-formed document without that path.
Blank(kind) ==
    [kind |-> kind, START_TIME |-> << >>, STOP_TIME |-> << >>, stateVector |-> << >>]

NoneVal == Blank("None")
Unset == Blank("unset")
NotXml == Blank("notxml")
OtherDoc == Blank("other")

Doc(l) ==
    [kind |-> "ndm", START_TIME |-> l[1].EPOCH, STOP_TIME |-> l[Len(l)].EPOCH,
     stateVector |-> l]

\* app.epochs: unset, or a list.
NoList == [kind |-> "unset", items |-> << >>]
ListVal(l) == [kind |-> "list", items |-> l]

DataDocs == {Doc(l) : l \in DataLists}

\* What the origin can answer: a status and a body.
OriginDocs == {Doc([i \in 1..k |-> Epoch(i - 1)]) : k \in 1..NumOriginDocs}
NoResponse == [status_code |-> 0, text |-> NotXml]
Responses == [status_code : {200, 500}, text : OriginDocs \cup {OtherDoc, NotXml}]

----------------------------------------------------------------------------
(* retrieve_data and the route handlers, as functions of the store         *)

\* The store a handler runs against: Redis, the app attributes, and the
\* origin fetches and Redis writes the handler has made so far.
Store(cache, ds, ep) ==
    [exc |-> "none", rd |-> cache, data_set |-> ds, epochs |-> ep,
     fetched |-> 0, written |-> 0]

\* A variant that loads from the origin when Redis holds nothing.
retrieve_data_loading(st) ==
    IF st.rd.kind = "None"
    THEN LET d == CHOOSE x \in OriginDocs : TRUE
         IN  [st EXCEPT !.rd = d, !.data_set = d, !.epochs = ListVal(d.stateVector),
                        !.fetched = @ + 1, !.written = @ + 1]
    ELSE [st EXCEPT !.data_set = st.rd, !.epochs = ListVal(st.rd.stateVector)]

\* Lines 60-67.  json.loads(None) raises TypeError before anything is
\* assigned; a document without the path is assigned to app.data_set and
\* the subscript raises KeyError.
retrieve_data(st) ==
    IF st.rd.kind = "None" THEN [st EXCEPT !.exc = "TypeError"]
    ELSE IF st.rd.kind # "ndm" THEN [st EXCEPT !.exc = "KeyError", !.data_set = st.rd]
    ELSE [st EXCEPT !.data_set = st.rd, !.epochs = ListVal(st.rd.stateVector)]

\* What a handler returns: text, a list of epochs, a speed, a time range.
Val(text, eps, speed_sq, range) ==
    [text |-> text, epochs |-> eps, speed_sq |-> speed_sq, range |-> range]
NoVal == Val("", << >>, 0, << >>)

Raise(st, exc) == [st |-> st, exc |-> exc, val |-> NoVal]
Return(st, val) == [st |-> st, exc |-> "none", val |-> val]

\* Request arguments: absent, a text int() accepts (with its value), or a
\* text int() rejects.
Absent == [kind |-> "absent", val |-> 0]
BadArg == [kind |-> "bad", val |-> 0]
IntArg(k) == [kind |-> "int", val |-> k]
Args == {Absent, BadArg} \cup {IntArg(k) : k \in (-NegArgs)..(DataLen + 1)}

\* list[lo:hi]
PySliceBound(n, i) == IF i < 0 THEN (IF i + n < 0 THEN 0 ELSE i + n)
                      ELSE (IF i > n THEN n ELSE i)
PySlice(l, lo, hi) ==
    LET a == PySliceBound(Len(l), lo)
        b == PySliceBound(Len(l), hi)
    IN  IF a < b THEN SubSeq(l, a + 1, b) ELSE << >>

InvalidLimitMsg == "Invalid limit parameter; limit must be an integer."
InvalidOffsetMsg == "Invalid offset parameter; offset must be an integer."
MalformedMsg == "The time provided is not in the correct format."
NotFoundMsg ==
    "There is no epoch in the dataset whose time perfectly matches the submitted time."

\* Lines 97-101.
Window(eps, offset, limit) ==
    LET lim == IF offset + limit > Len(eps) THEN Len(eps) - offset ELSE limit
    IN  PySlice(eps, offset, offset + lim + 1)

\* Lines 70-101.
epochs(st, limit_arg, offset_arg) ==
    LET r == retrieve_data(st)
    IN  IF r.exc # "none" THEN Raise(r, r.exc)
        ELSE LET eps == r.epochs.items
                 limit == IF limit_arg.kind = "absent" THEN IntArg(Len(eps)) ELSE limit_arg
                 offset == IF offset_arg.kind = "absent" THEN IntArg(0) ELSE offset_arg
             IN  IF limit.kind = "bad" THEN Return(r, Val(InvalidLimitMsg, << >>, 0, << >>))
                 ELSE IF offset.kind = "bad"
                 THEN Return(r, Val(InvalidOffsetMsg, << >>, 0, << >>))
                 ELSE Return(r, Val("", Window(eps, offset.val, limit.val), 0, << >>))

\* _epoch["EPOCH"] == epoch (line 126): the texts are compared.
EpochMatches(e, epoch) == e.EPOCH = epoch

\* Lines 104-132.
epoch_f(st, epoch) ==
    LET r == retrieve_data(st)
    IN  IF r.exc # "none" THEN Raise(r, r.exc)
        ELSE IF strptime(replace_Z(epoch)).exc # "none" THEN Raise(r, MalformedMsg)
        ELSE LET l == SelectSeq(r.epochs.items, LAMBDA e : EpochMatches(e, epoch))
             IN  IF Len(l) = 0 THEN Raise(r, NotFoundMsg)
                 ELSE Return(r, Val("", <<l[1]>>, 0, << >>))

\* Lines 135-157.  The speed is the square root of speed_sq.
epoch_speed(st, epoch) ==
    LET r == retrieve_data(st)
    IN  IF r.exc # "none" THEN Raise(r, r.exc)
        ELSE LET f == epoch_f(r, epoch)
             IN  IF f.exc # "none" THEN Raise(f.st, f.exc)
                 ELSE LET e == f.val.epochs[1]
                      IN  Return(f.st, Val("km/s", << >>,
                                 e.X_DOT * e.X_DOT + e.Y_DOT * e.Y_DOT + e.Z_DOT * e.Z_DOT,
                                 << >>))

\* Lines 202-221, with the clock's reading as an argument.
closest_epoch(sv, current_time) ==
    LET i == dich_index_finder(sv, current_time)
    IN  IF i.kind = "raise" THEN [exc |-> i.exc, epoch |-> NoEpoch]
        ELSE [exc |-> "none", epoch |-> PyGet(sv, i.index)]

\* Lines 160-173.
now(st, current_time) ==
    LET r == retrieve_data(st)
    IN  IF r.exc # "none" THEN Raise(r, r.exc)
        ELSE LET c == closest_epoch(r.epochs.items, current_time)
             IN  IF c.exc # "none" THEN Raise(r, c.exc)
                 ELSE LET sp == epoch_speed(r, c.epoch.EPOCH)
                      IN  IF sp.exc # "none" THEN Raise(sp.st, sp.exc)
                          ELSE Return(sp.st, Val("", <<c.epoch>>, sp.val.speed_sq, << >>))

\* Characters 0..18 of a timestamp text (year, day and time of day): its
\* numeric body without the fraction's tail and the "Z".
YearDayTime(s) == IF Len(s) >= 1 THEN <<s[1]>> ELSE << >>

\* Lines 176-199.
data_time_range(st) ==
    LET r == retrieve_data(st)
    IN  IF r.exc # "none" THEN Raise(r, r.exc)
        ELSE Return(r, Val("The data ranges from", << >>, 0,
                           YearDayTime(r.data_set.START_TIME)
                               \o YearDayTime(r.data_set.STOP_TIME)))

\* Lines 23-25, and Flask's answer to a handler that returns.
handle_exception(e) ==
    [status |-> 500, text |-> e, epochs |-> << >>, speed_sq |-> 0, range |-> << >>]
Success(val) ==
    [status |-> 200, text |-> val.text, epochs |-> val.epochs,
     speed_sq |-> val.speed_sq, range |-> val.range]

----------------------------------------------------------------------------
(* Initial states                                                          *)

Callers == 1..NumCallers

NoRequest == [op |-> "none", limit |-> Absent, offset |-> Absent, epoch |-> << >>,
              current_time |-> 0]
NoResp == [status |-> 0, text |-> "", epochs |-> << >>, speed_sq |-> 0, range |-> << >>]

SearchIdle ==
    /\ state_vectors = << >>
    /\ searched_time = 0
    /\ left_index = 0
    /\ right_index = 0
    /\ current_index = 0
    /\ pc = "idle"
    /\ retval = [kind |-> "none", exc |-> "none", index |-> 0]

StoreInit(caches) ==
    /\ rd \in caches
    /\ rd_init = rd
    /\ app_data_set = Unset
    /\ app_epochs = NoList
    /\ fetches = 0
    /\ writes = 0
    /\ nraised = 0

QueryIdle ==
    /\ req = NoRequest
    /\ resp = NoResp

LoaderInit(limits) ==
    /\ lpc = [c \in Callers |-> "idle"]
    /\ response = [c \in Callers |-> NoResponse]
    /\ outcome = [c \in Callers |-> "none"]
    /\ calls = [c \in Callers |-> 0]
    /\ call_limit = limits

InitSearch ==
    /\ state_vectors \in SortedLists
    /\ searched_time \in Times
    /\ left_index = 0
    /\ right_index = 0
    /\ current_index = 0
    /\ pc = "call"
    /\ retval = [kind |-> "none", exc |-> "none", index |-> 0]
    /\ StoreInit({NoneVal})
    /\ QueryIdle
    /\ LoaderInit([c \in Callers |-> 0])

\* The handlers are served against whatever Redis holds.
InitQuery ==
    /\ SearchIdle
    /\ StoreInit({NoneVal} \cup DataDocs)
    /\ QueryIdle
    /\ LoaderInit([c \in Callers |-> 0])

\* One caller calls load_data MaxCalls times in sequence.
InitLoadSeq ==
    /\ SearchIdle
    /\ StoreInit({NoneVal} \cup OriginDocs)
    /\ QueryIdle
    /\ LoaderInit([c \in Callers |-> IF c = 1 THEN MaxCalls ELSE 0])

\* Every caller calls load_data once, all at the same time.
InitLoadConc ==
    /\ SearchIdle
    /\ StoreInit({NoneVal} \cup OriginDocs)
    /\ QueryIdle
    /\ LoaderInit([c \in Callers |-> 1])

----------------------------------------------------------------------------
(* dich_index_finder, statement by statement                               *)

not_search_vars == <<store_vars, query_vars, loader_vars, history_vars>>

\* Lines 236-238.
Enter ==
    /\ pc = "call"
    /\ left_index' = 0
    /\ right_index' = Len(state_vectors) - 1
    /\ current_index' = 0
    /\ pc' = "while"
    /\ UNCHANGED <<state_vectors, searched_time, retval, not_search_vars>>

\* Lines 240-254: one iteration of the loop.
Iterate ==
    /\ pc = "while"
    /\ right_index - left_index >= 2
    /\ LET b == LoopBody(state_vectors, searched_time, left_index, right_index)
       IN  /\ current_index' = b.cur
           /\ left_index' = b.left
           /\ right_index' = b.right
           /\ pc' = CASE b.kind = "continue" -> "while"
                      [] b.kind = "return" -> "returned"
                      [] OTHER -> "raised"
           /\ retval' = IF b.kind = "continue" THEN retval
                        ELSE [kind |-> b.kind, exc |-> b.exc, index |-> b.cur]
    /\ UNCHANGED <<state_vectors, searched_time, not_search_vars>>

\* Lines 240, 256-269: the loop condition fails, the final window decides.
Finish ==
    /\ pc = "while"
    /\ ~(right_index - left_index >= 2)
    /\ LET a == AfterLoop(state_vectors, searched_time, left_index, right_index)
       IN  /\ retval' = a
           /\ pc' = IF a.kind = "return" THEN "returned" ELSE "raised"
    /\ UNCHANGED <<state_vectors, searched_time, left_index, right_index,
                   current_index, not_search_vars>>

NextSearch == Enter \/ Iterate \/ Finish

\* The function is straight-line sequential code: a call that has started
\* keeps executing statements.
SpecSearch == InitSearch /\ [][NextSearch]_vars /\ WF_vars(NextSearch)

----------------------------------------------------------------------------
(* The route handlers: one request, served whole                           *)

\* Texts of at most two characters.
Chars == {Num(v) : v \in 0..DataTime} \cup {ZChar, XChar}
Texts == {<< >>} \cup {<<a>> : a \in Chars} \cup {<<a, b>> : a \in Chars, b \in Chars}

\* The request is answered from `result` and leaves the store as it says.
Serve(request, result) ==
    /\ req' = request
    /\ resp' = IF result.exc # "none" THEN handle_exception(result.exc)
               ELSE Success(result.val)
    /\ rd' = result.st.rd
    /\ app_data_set' = result.st.data_set
    /\ app_epochs' = result.st.epochs
    /\ fetches' = fetches + result.st.fetched
    /\ writes' = writes + result.st.written
    /\ UNCHANGED <<search_vars, loader_vars, nraised, rd_init>>

Current == Store(rd, app_data_set, app_epochs)

GetEpochs ==
    \E limit \in Args, offset \in Args :
        Serve([NoRequest EXCEPT !.op = "epochs", !.limit = limit, !.offset = offset],
              epochs(Current, limit, offset))

GetEpoch ==
    \E epoch \in Texts :
        Serve([NoRequest EXCEPT !.op = "epoch_f", !.epoch = epoch],
              epoch_f(Current, epoch))

GetSpeed ==
    \E epoch \in Texts :
        Serve([NoRequest EXCEPT !.op = "epoch_speed", !.epoch = epoch],
              epoch_speed(Current, epoch))

GetNow ==
    \E current_time \in 0..DataTime :
        Serve([NoRequest EXCEPT !.op = "now", !.current_time = current_time],
              now(Current, current_time))

GetRange ==
    Serve([NoRequest EXCEPT !.op = "data_time_range"], data_time_range(Current))

NextQuery == GetEpochs \/ GetEpoch \/ GetSpeed \/ GetNow \/ GetRange

SpecQuery == InitQuery /\ [][NextQuery]_vars

----------------------------------------------------------------------------
(* load_data, statement by statement, for each caller                      *)

not_loader_vars == <<search_vars, query_vars>>

\* Lines 34-36: the call starts and reads Redis; with data there it returns.
CacheGet(c) ==
    /\ lpc[c] = "idle"
    /\ calls[c] < call_limit[c]
    /\ response' = [response EXCEPT ![c] = NoResponse]
    /\ IF rd.kind = "None"
       THEN /\ lpc' = [lpc EXCEPT ![c] = "fetch"]
            /\ outcome' = [outcome EXCEPT ![c] = "running"]
            /\ UNCHANGED calls
       ELSE /\ outcome' = [outcome EXCEPT ![c] = "returned"]
            /\ calls' = [calls EXCEPT ![c] = @ + 1]
            /\ UNCHANGED lpc
    /\ UNCHANGED <<store_vars, call_limit, history_vars, not_loader_vars>>

\* Lines 38-45: the GET to the origin; its status is logged and not acted on.
Fetch(c) ==
    /\ lpc[c] = "fetch"
    /\ \E r \in Responses : response' = [response EXCEPT ![c] = r]
    /\ fetches' = fetches + 1
    /\ lpc' = [lpc EXCEPT ![c] = "parse"]
    /\ UNCHANGED <<store_vars, outcome, calls, call_limit, writes, nraised, rd_init,
                   not_loader_vars>>

\* Lines 47-54: xmltodict.parse raises on a body that is no XML; otherwise
\* app.data_set is assigned, and the subscript raises KeyError on a
\* document without the dataset's path.
Parse(c) ==
    /\ lpc[c] = "parse"
    /\ LET body == response[c].text
       IN  CASE body.kind = "notxml" ->
                  /\ outcome' = [outcome EXCEPT ![c] = "ExpatError"]
                  /\ UNCHANGED <<app_data_set, app_epochs>>
             [] body.kind = "other" ->
                  /\ outcome' = [outcome EXCEPT ![c] = "KeyError"]
                  /\ app_data_set' = body
                  /\ UNCHANGED app_epochs
             [] OTHER ->
                  /\ app_data_set' = body
                  /\ app_epochs' = ListVal(body.stateVector)
                  /\ UNCHANGED outcome
    /\ IF response[c].text.kind = "ndm"
       THEN /\ lpc' = [lpc EXCEPT ![c] = "set"]
            /\ UNCHANGED <<calls, nraised>>
       ELSE /\ lpc' = [lpc EXCEPT ![c] = "idle"]
            /\ calls' = [calls EXCEPT ![c] = @ + 1]
            /\ nraised' = nraised + 1
    /\ UNCHANGED <<rd, response, call_limit, fetches, writes, rd_init, not_loader_vars>>

\* A variant that leaves Redis as it is.
CacheSet_skipped(c) ==
    /\ lpc[c] = "set"
    /\ lpc' = [lpc EXCEPT ![c] = "idle"]
    /\ outcome' = [outcome EXCEPT ![c] = "returned"]
    /\ calls' = [calls EXCEPT ![c] = @ + 1]
    /\ UNCHANGED <<rd, writes, app_data_set, app_epochs, response, call_limit, fetches,
                   nraised, rd_init, not_loader_vars>>

\* Line 57: rd.set("data_set", json.dumps(app.data_set)), and the return.
CacheSet(c) ==
    /\ lpc[c] = "set"
    /\ rd' = app_data_set
    /\ writes' = writes + 1
    /\ lpc' = [lpc EXCEPT ![c] = "idle"]
    /\ outcome' = [outcome EXCEPT ![c] = "returned"]
    /\ calls' = [calls EXCEPT ![c] = @ + 1]
    /\ UNCHANGED <<app_data_set, app_epochs, response, call_limit, fetches, nraised,
                   rd_init, not_loader_vars>>

NextLoad ==
    \/ \E c \in Callers : CacheGet(c)
    \/ \E c \in Callers : Fetch(c)
    \/ \E c \in Callers : Parse(c)
    \/ \E c \in Callers : CacheSet(c)

SpecLoadSeq == InitLoadSeq /\ [][NextLoad]_vars

SpecLoadConc == InitLoadConc /\ [][NextLoad]_vars

----------------------------------------------------------------------------
(* Properties of the search                                                *)

NumEpochs == Len(state_vectors)

\* The instant of the epoch at (0-based) index i of the list being searched.
InstantAt(i) == get_datetime_from_index(state_vectors, i).dt

Indices == 0..(NumEpochs - 1)

C9_EmptyRaises ==
    NumEpochs = 0 =>
        /\ pc # "returned"
        /\ pc = "while" => ~(right_index - left_index >= 2)
        /\ pc = "raised" => (retval.kind = "raise" /\ retval.exc = "IndexError")

C9_Witness == NumEpochs = 0 /\ pc = "raised"

\* C10: for a list of two or more epochs, every loop test finds
\* 0 <= left < right <= n-1; an iteration either narrows the window strictly
\* (keeping those bounds) or returns the midpoint, whose timestamp equals
\* the searched instant; the loop is left with right = left + 1; and the
\* call always comes to its return.
C10_WindowInv ==
    (pc = "while" /\ NumEpochs >= 2) =>
        /\ 0 <= left_index
        /\ left_index < right_index
        /\ right_index <= NumEpochs - 1
        /\ ~(right_index - left_index >= 2) => right_index = left_index + 1

C10_IterationStep ==
    (pc = "while" /\ NumEpochs >= 2 /\ right_index - left_index >= 2) =>
        \/ /\ pc' = "while"
           /\ right_index' - left_index' < right_index - left_index
           /\ 0 <= left_index'
           /\ left_index' < right_index'
           /\ right_index' <= NumEpochs - 1
        \/ /\ pc' = "returned"
           /\ retval'.index = current_index'
           /\ left_index < current_index' /\ current_index' < right_index
           /\ InstantAt(current_index') = searched_time

C10_LoopTerminates ==
    /\ []C10_WindowInv
    /\ [][C10_IterationStep]_vars
    /\ (pc = "call" /\ NumEpochs >= 2) ~> (pc = "returned")

\* The loop is left after two narrowing iterations, one from each side.
C10_Witness ==
    /\ pc = "while"
    /\ NumEpochs >= 5
    /\ left_index > 0
    /\ right_index < NumEpochs - 1
    /\ right_index = left_index + 1

----------------------------------------------------------------------------
(* Properties of the handlers                                              *)

QueryOps == {"epochs", "epoch_f", "epoch_speed", "now", "data_time_range"}

Min(a, b) == IF a <= b THEN a ELSE b

NonNegative(arg) == arg.kind = "int" /\ arg.val >= 0

\* C2: with a dataset of n epochs in the store and non-negative integers
\* offset <= n and limit, /epochs answers the epochs of ranks
\* offset .. offset + min(limit, n - offset) - 1, and nothing else.
C2_WindowExact ==
    (/\ req.op = "epochs"
     /\ rd.kind = "ndm"
     /\ NonNegative(req.limit)
     /\ NonNegative(req.offset)
     /\ req.offset.val <= Len(rd.stateVector)) =>
        /\ resp.status = 200
        /\ resp.epochs =
               SubSeq(rd.stateVector, req.offset.val + 1,
                      req.offset.val
                          + Min(req.limit.val, Len(rd.stateVector) - req.offset.val))

\* The text is exactly a numeric body followed by the letter Z.
InFixedFormat(t) == Len(t) = 2 /\ t[1].c = "num" /\ t[2] = ZChar

StoredWith(t) == {i \in 1..Len(rd.stateVector) : rd.stateVector[i].EPOCH = t}

\* C3: with a dataset in the store, /epochs/<t> fails with the message of a
\* malformed timestamp when t is not in the fixed format; otherwise answers
\* the stored epoch whose timestamp is t when there is one; otherwise fails
\* with the message of a missing epoch.
C3_ThreeOutcomes ==
    (req.op = "epoch_f" /\ rd.kind = "ndm") =>
        IF ~InFixedFormat(req.epoch)
        THEN resp.status = 500 /\ resp.text = MalformedMsg /\ resp.epochs = << >>
        ELSE IF StoredWith(req.epoch) # {}
        THEN /\ resp.status = 200
             /\ \E i \in StoredWith(req.epoch) : resp.epochs = <<rd.stateVector[i]>>
        ELSE resp.status = 500 /\ resp.text = NotFoundMsg /\ resp.epochs = << >>

\* C5 as stated: once a query has been served, Redis holds a dataset and the
\* query was answered from its epochs (a query that finds Redis empty loads
\* the dataset first).
C5_QueriesLoad ==
    req.op \in QueryOps =>
        /\ rd.kind = "ndm"
        /\ app_epochs = ListVal(rd.stateVector)
        /\ resp.text # "TypeError"

\* C5 as amended: a query only reads Redis.  It never fetches from the
\* origin and never writes Redis; with a dataset there it answers from that
\* dataset's epochs; with none there it fails with a server error and
\* leaves the app without a dataset.
C5_QueriesOnlyRead ==
    /\ rd = rd_init
    /\ fetches = 0
    /\ writes = 0
    /\ req.op \in QueryOps =>
          IF rd.kind = "None"
          THEN /\ resp = handle_exception("TypeError")
               /\ app_data_set = Unset
               /\ app_epochs = NoList
          ELSE /\ app_data_set = rd
               /\ app_epochs = ListVal(rd.stateVector)

\* /now is asked while Redis holds nothing and answers the server error.
C5_Witness ==
    /\ req.op = "now"
    /\ rd.kind = "None"
    /\ resp.status = 500

InvalidArg(arg) == arg.kind = "bad" \/ (arg.kind = "int" /\ arg.val < 0)

\* C8: with a dataset in the store, an offset or limit that is no
\* non-negative integer makes /epochs answer an error (not a success) and
\* no epochs.
C8_InvalidParameter ==
    (/\ req.op = "epochs"
     /\ rd.kind = "ndm"
     /\ (InvalidArg(req.limit) \/ InvalidArg(req.offset))) =>
        /\ resp.status = 500
        /\ resp.epochs = << >>

----------------------------------------------------------------------------
(* Properties of the loader                                                *)

\* The epochs a query would see with Redis holding `cache`.
Visible(cache) == retrieve_data(Store(cache, Unset, NoList)).epochs

ExpectedFetches == IF rd_init.kind = "None" THEN 1 ELSE 0

\* C4: when one caller has completed two (or more) calls of load_data and
\* none raised, the origin was fetched once if Redis was empty at the start
\* and never otherwise, and Redis was written at most once; and once the
\* first call has returned, no later step changes what queries see.
C4_Counts ==
    (calls[1] >= 2 /\ nraised = 0) =>
        /\ fetches = ExpectedFetches
        /\ writes <= 1
        /\ writes = fetches

C4_LaterCallsChangeNothing ==
    (calls[1] >= 1 /\ nraised = 0) =>
        /\ Visible(rd') = Visible(rd)
        /\ fetches' = fetches
        /\ writes' = writes

C6_SingleFlight ==
    (rd_init.kind = "None" /\ nraised = 0) =>
        /\ fetches <= 1
        /\ writes <= 1

\* C7: a caller whose GET was answered with a status other than 200 goes no
\* further than the fetch: it does not reach the write to Redis, its call
\* does not return normally, and the body's epochs are not made app.epochs.
C7_OriginUnavailable ==
    \A c \in Callers :
        (response[c].status_code \notin {0, 200}) =>
            /\ lpc[c] # "set"
            /\ outcome[c] # "returned"
            /\ app_epochs # ListVal(response[c].text.stateVector)

----------------------------------------------------------------------------
(* The tie in the final window                                             *)

DistanceLeft == Abs(InstantAt(left_index) - searched_time)
DistanceRight == Abs(InstantAt(right_index) - searched_time)

\* The loop has been left with a window of two adjacent epochs.
FinalWindow == NumEpochs >= 2 /\ right_index = left_index + 1

\* C11 as stated: with strictly ascending timestamps, the search never
\* stands at its final two-candidate window with both candidates at the
\* same distance from the searched instant.
C11_TieUnreachable ==
    ~(pc = "while" /\ FinalWindow /\ DistanceLeft = DistanceRight)

\* C11 as amended: with strictly ascending timestamps, the two candidates of
\* the final window are equidistant exactly when the searched instant is the
\* midpoint between their timestamps; that state is reached, and from it
\* the search returns the right candidate.
C11_TieReturnsRight ==
    (pc = "returned" /\ FinalWindow) =>
        /\ (DistanceLeft = DistanceRight)
               <=> (2 * searched_time = InstantAt(left_index) + InstantAt(right_index))
        /\ (DistanceLeft = DistanceRight) => retval.index = right_index

\* The search has returned from a tie inside a list of three or more.
C11_Witness ==
    /\ pc = "returned"
    /\ FinalWindow
    /\ NumEpochs >= 3
    /\ DistanceLeft = DistanceRight
    /\ DistanceLeft > 0
    /\ retval.index = right_index

====
